---- MODULE Spec2Model ----
(***************************************************************************)
(* Event lifecycle and booking integrity of DevEvents: the Event and       *)
(* Booking Mongoose models (schema validation, pre-save hooks, unique      *)
(* indexes), the slug generator and the date/time normalizers, the route    *)
(* handlers, the similar-events query, the connection cache of dbConnect   *)
(* and the booking form.                                                   *)
(*                                                                         *)
(* Strings are sequences of one-character strings, so that the string      *)
(* transforms are computed character by character as the code does.        *)
(***************************************************************************)
EXTENDS Integers, Sequences, FiniteSets, TLC

VARIABLES
    events,     \* the Event collection: sequence of documents, _id = index
    bookings,   \* the Booking collection: sequence of documents
    reqs,       \* the requests in flight: one record per request slot
    ops,        \* number of requests started so far
    retitled,   \* _ids of the events whose title an update has changed
    arg,        \* input of the pure function under check
    ret,        \* its result
    fn,         \* which pure function has been applied ("none" before)
    env,        \* process.env: is MONGODB_URI defined
    cached,     \* the connection cache kept on `global`: conn and promise
    attempts,   \* the mongoose.connect() calls made so far, with their waiters
    callers,    \* the dbConnect() calls in flight: one record per caller
    microtasks, \* the callers whose awaited promise has settled, in resume order
    form        \* the BookEvent component: its state, calls and notifications

vars == <<events, bookings, reqs, ops, retitled, arg, ret, fn,
          env, cached, attempts, callers, microtasks, form>>
pureVars == <<arg, ret, fn>>
connVars == <<env, cached, attempts, callers, microtasks>>
dataVars == <<events, bookings, reqs, ops, retitled>>

---------------------------------------------------------------------------
(* Characters and JavaScript string primitives *)

UpperSeq == <<"A","B","C","D","E","F","G","H","I","J","K","L","M",
              "N","O","P","Q","R","S","T","U","V","W","X","Y","Z">>
LowerSeq == <<"a","b","c","d","e","f","g","h","i","j","k","l","m",
              "n","o","p","q","r","s","t","u","v","w","x","y","z">>
DigitSeq == <<"0","1","2","3","4","5","6","7","8","9">>

Range(s) == {s[i] : i \in DOMAIN s}

UpperChars == Range(UpperSeq)
LowerChars == Range(LowerSeq)
DigitChars == Range(DigitSeq)

\* \w of a JavaScript regular expression: [A-Za-z0-9_]
WordChars == UpperChars \cup LowerChars \cup DigitChars \cup {"_"}
\* \s of a JavaScript regular expression (the ASCII part)
SpaceChars == {" ", "\t", "\n"}

IndexOf(c, s) == CHOOSE i \in DOMAIN s : s[i] = c

toLowerChar(c) == IF c \in UpperChars THEN LowerSeq[IndexOf(c, UpperSeq)] ELSE c
toUpperChar(c) == IF c \in LowerChars THEN UpperSeq[IndexOf(c, LowerSeq)] ELSE c

\* String.prototype.toLowerCase / toUpperCase
toLowerCase(s) == [i \in DOMAIN s |-> toLowerChar(s[i])]
toUpperCase(s) == [i \in DOMAIN s |-> toUpperChar(s[i])]

RECURSIVE trimStart(_)
trimStart(s) ==
    IF s # <<>> /\ Head(s) \in SpaceChars THEN trimStart(Tail(s)) ELSE s

RECURSIVE trimEnd(_)
trimEnd(s) ==
    IF s # <<>> /\ s[Len(s)] \in SpaceChars
    THEN trimEnd(SubSeq(s, 1, Len(s) - 1))
    ELSE s

\* String.prototype.trim
trim(s) == trimEnd(trimStart(s))

\* s.replace(/[^cls]/g, ""): drop every character outside cls
KeepOnly(s, cls) == SelectSeq(s, LAMBDA c : c \in cls)

\* s.replace(/[cls]+/g, r): every maximal run of cls characters becomes r
RECURSIVE ReplaceRuns(_, _, _)
ReplaceRuns(s, cls, r) ==
    IF s = <<>> THEN <<>>
    ELSE IF Head(s) \in cls
         THEN IF Len(s) > 1 /\ s[2] \in cls
              THEN ReplaceRuns(Tail(s), cls, r)
              ELSE <<r>> \o ReplaceRuns(Tail(s), cls, r)
         ELSE <<Head(s)>> \o ReplaceRuns(Tail(s), cls, r)

\* s.replace(/^-|-$/g, ""): one leading and one trailing hyphen
StripEdgeHyphens(s) ==
    LET a == IF s # <<>> /\ Head(s) = "-" THEN Tail(s) ELSE s
    IN  IF a # <<>> /\ a[Len(a)] = "-" THEN SubSeq(a, 1, Len(a) - 1) ELSE a

\* Number.prototype.toString() of a natural number
RECURSIVE Dec(_)
Dec(n) == IF n < 10 THEN <<DigitSeq[n + 1]>>
          ELSE Dec(n \div 10) \o <<DigitSeq[(n % 10) + 1]>>

\* parseInt(s, 10) of a string of decimal digits
RECURSIVE parseInt(_)
parseInt(s) ==
    IF s = <<>> THEN 0
    ELSE 10 * parseInt(SubSeq(s, 1, Len(s) - 1)) + (IndexOf(s[Len(s)], DigitSeq) - 1)

\* s.padStart(2, "0")
padStart2(s) == IF Len(s) < 2 THEN <<"0">> \o s ELSE s

IsDigits(s) == \A i \in DOMAIN s : s[i] \in DigitChars

---------------------------------------------------------------------------
(* Slug generator *)

\* the generator without the hyphen-collapsing step
generateSlugNoCollapse(title) ==
    StripEdgeHyphens(
      ReplaceRuns(
        KeepOnly(trim(toLowerCase(title)), WordChars \cup SpaceChars \cup {"-"}),
        SpaceChars, "-"))

generateSlug(title) ==
    StripEdgeHyphens(
      ReplaceRuns(
        ReplaceRuns(
          KeepOnly(trim(toLowerCase(title)), WordChars \cup SpaceChars \cup {"-"}),
          SpaceChars, "-"),
        {"-"}, "-"))

---------------------------------------------------------------------------
(* Date/time normalizers.  A result is [ok, val]: ok = FALSE is a throw.   *)

Threw == [ok |-> FALSE, val |-> <<>>]
Returned(v) == [ok |-> TRUE, val |-> v]

\* /^(\d{1,2}):(\d{2})/ : the length of the hour group, 0 when no match
HourLen(t) ==
    IF Len(t) >= 4 /\ t[1] \in DigitChars /\ t[2] = ":"
       /\ t[3] \in DigitChars /\ t[4] \in DigitChars
    THEN 1
    ELSE IF Len(t) >= 5 /\ t[1] \in DigitChars /\ t[2] \in DigitChars /\ t[3] = ":"
            /\ t[4] \in DigitChars /\ t[5] \in DigitChars
         THEN 2
         ELSE 0

\* trimmed.match(/^(\d{1,2}):(\d{2})$/)
time24Match(t) == HourLen(t) # 0 /\ Len(t) = HourLen(t) + 3

\* trimmed.match(/^(\d{1,2}):(\d{2})\s*(AM|PM)$/)
time12Match(t) ==
    /\ HourLen(t) # 0
    /\ Len(t) >= HourLen(t) + 5
    /\ SubSeq(t, Len(t) - 1, Len(t)) \in {<<"A","M">>, <<"P","M">>}
    /\ \A i \in (HourLen(t) + 4)..(Len(t) - 2) : t[i] \in SpaceChars

HourOf(t) == parseInt(SubSeq(t, 1, HourLen(t)))
MinutesOf(t) == SubSeq(t, HourLen(t) + 2, HourLen(t) + 3)
PeriodOf(t) == SubSeq(t, Len(t) - 1, Len(t))

\* the 12-hour conversion of normalizeTime
To24(hours, period) ==
    IF period = <<"P","M">> /\ hours # 12 THEN hours + 12
    ELSE IF period = <<"A","M">> /\ hours = 12 THEN 0
    ELSE hours

normalizeTime(timeStr) ==
    LET trimmed == toUpperCase(trim(timeStr))
    IN  IF time24Match(trimmed) /\ HourOf(trimmed) >= 0 /\ HourOf(trimmed) <= 23
        THEN Returned(padStart2(Dec(HourOf(trimmed))) \o <<":">> \o MinutesOf(trimmed))
        ELSE IF time12Match(trimmed)
             THEN Returned(padStart2(Dec(To24(HourOf(trimmed), PeriodOf(trimmed))))
                           \o <<":">> \o MinutesOf(trimmed))
             ELSE Threw

\* Date strings the model covers: the ISO date YYYY-MM-DD (days 1..28, which
\* every month has), alone or followed by a UTC time THH:MM:SSZ.  new Date()
\* reads both as UTC, so toISOString() gives the same calendar day back;
\* every other string of the model's inputs is unparsable (Invalid Date).
IsIsoDate(d) ==
    /\ Len(d) = 10
    /\ IsDigits(SubSeq(d, 1, 4)) /\ d[5] = "-"
    /\ IsDigits(SubSeq(d, 6, 7)) /\ d[8] = "-"
    /\ IsDigits(SubSeq(d, 9, 10))
    /\ parseInt(SubSeq(d, 6, 7)) \in 1..12
    /\ parseInt(SubSeq(d, 9, 10)) \in 1..28

IsIsoUtcTime(t) ==
    /\ Len(t) = 10
    /\ t[1] = "T" /\ IsDigits(SubSeq(t, 2, 3)) /\ t[4] = ":"
    /\ IsDigits(SubSeq(t, 5, 6)) /\ t[7] = ":"
    /\ IsDigits(SubSeq(t, 8, 9)) /\ t[10] = "Z"
    /\ parseInt(SubSeq(t, 2, 3)) <= 23
    /\ parseInt(SubSeq(t, 5, 6)) <= 59
    /\ parseInt(SubSeq(t, 8, 9)) <= 59

\* !isNaN(new Date(dateStr).getTime())
DateParses(d) ==
    \/ IsIsoDate(d)
    \/ Len(d) = 20 /\ IsIsoDate(SubSeq(d, 1, 10)) /\ IsIsoUtcTime(SubSeq(d, 11, 20))

normalizeDate(dateStr) ==
    IF DateParses(dateStr) THEN Returned(SubSeq(dateStr, 1, 10)) ELSE Threw

---------------------------------------------------------------------------
(* Event model: schema validation, unique slug index, pre-save hook *)

Procs == {"r1", "r2"}

\* bound on the number of requests started in one behaviour
MaxOps == 3

\* an Event document; venue stands for the required trimmed strings that
\* are declared alike (description, overview, image, venue, location,
\* audience, organizer)
NoDoc == [title |-> <<>>, slug |-> <<>>, venue |-> <<>>, date |-> <<>>,
          time |-> <<>>, mode |-> "", agenda |-> <<>>, tags |-> <<>>]

\* a request slot: the locals of the save or query in flight, then its
\* outcome (result, fields, status of the response, documents found);
\* disturbed records that another write has landed since the save started
Idle == [kind |-> "none", pc |-> "idle", id |-> 0, isNew |-> FALSE,
         modified |-> {}, doc |-> NoDoc, baseSlug |-> <<>>, cand |-> <<>>,
         counter |-> 0, lookups |-> 0, eventId |-> 0, email |-> <<>>,
         result |-> "none", fields |-> {}, status |-> 0, found |-> <<>>,
         disturbed |-> FALSE]

\* POST /api/events: 201 when the event is created, its catch otherwise
PostStatus(res) == IF res = "ok" THEN 201 ELSE 400

\* GET /api/events: 200 with the events, its catch otherwise
ListStatus(res) == IF res = "ok" THEN 200 ELSE 500

\* GET /api/events/[slug]: 400 for a missing or blank slug, 404 when no
\* event has it, 200 with the event, its catch otherwise
GetStatus(res) ==
    CASE res = "ok" -> 200
      [] res = "InvalidRequest" -> 400
      [] res = "NotFound" -> 404
      [] OTHER -> 500

\* the status of the response, for the requests served by a route handler
StatusOf(kind, res) ==
    CASE kind = "createEvent" -> PostStatus(res)
      [] kind = "listEvents" -> ListStatus(res)
      [] kind = "getEvent" -> GetStatus(res)
      [] OTHER -> 0

\* the request has returned to its caller: only the outcome is kept
Done(r, res, id, flds) ==
    [Idle EXCEPT !.kind = r.kind, !.pc = "done", !.id = id,
                 !.result = res, !.fields = flds,
                 !.status = StatusOf(r.kind, res)]

Free(p) == reqs[p].pc \in {"idle", "done"}

\* minlength of title
MinTitleLen == 3

\* the schema's validators on the paths being saved: required strings must
\* be non-empty, title has a minimum length
\* the paths declared required: true with type String
RequiredStrings == {"title", "venue", "date", "time"}

\* enum of mode
Modes == {"online", "offline", "hybrid"}

\* the paths validated when a new document is saved
SchemaPaths == DOMAIN NoDoc \ {"slug"}

Violations(doc, paths) ==
    {f \in paths \cap RequiredStrings : doc[f] = <<>>}
    \cup (IF "title" \in paths /\ Len(doc.title) < MinTitleLen THEN {"title"} ELSE {})
    \cup (IF "mode" \in paths /\ doc.mode \notin Modes THEN {"mode"} ELSE {})
    \cup {f \in paths \cap {"agenda", "tags"} : Len(doc[f]) = 0}

\* slug: { unique: true }: does the index refuse this slug for document id
SlugIndexOff(slug, id) == FALSE

SlugIndexRejects(slug, id) ==
    \E i \in DOMAIN events : i # id /\ events[i].slug = slug

\* the lookup without its _id filter
FindOneSlugAny(slug, id) ==
    \E i \in DOMAIN events : events[i].slug = slug

\* Event.findOne({ slug, _id: { $ne: this._id } }) finds a document
FindOneSlug(slug, id) ==
    \E i \in DOMAIN events : events[i].slug = slug /\ i # id

\* this.isModified("title") || this.isNew, and so on for date and time
HookAlways(r, path) == TRUE

HookRuns(r, path) == path \in r.modified \/ r.isNew

\* the suffix taken after the increment
CandidateOffByOne(baseSlug, counter) == baseSlug \o <<"-">> \o Dec(counter + 1)

\* slug = `${baseSlug}-${counter}`
Candidate(baseSlug, counter) == baseSlug \o <<"-">> \o Dec(counter)

\* the hook swallowing a normalization failure and saving the raw strings
AfterLoopSwallow(r) ==
    LET d == IF HookRuns(r, "date") THEN normalizeDate(r.doc.date)
             ELSE Returned(r.doc.date)
        t == IF HookRuns(r, "time") THEN normalizeTime(r.doc.time)
             ELSE Returned(r.doc.time)
    IN  [r EXCEPT !.pc = "write",
                  !.doc.date = IF d.ok THEN d.val ELSE @,
                  !.doc.time = IF t.ok THEN t.val ELSE @]

\* the hook after its loop: this.slug = slug, then the two normalizations;
\* a throw ends the save with nothing written
AfterLoop(r) ==
    LET d == IF HookRuns(r, "date") THEN normalizeDate(r.doc.date)
             ELSE Returned(r.doc.date)
        t == IF HookRuns(r, "time") THEN normalizeTime(r.doc.time)
             ELSE Returned(r.doc.time)
    IN  IF ~d.ok \/ ~t.ok
        THEN Done(r, "InvalidFormat", r.id,
                  (IF ~d.ok THEN {"date"} ELSE {"time"}))
        ELSE [r EXCEPT !.pc = "write", !.doc.date = d.val, !.doc.time = t.val]

\* the base slug assigned whatever candidate the loop has found free
AssignSlugBase(r, slug) ==
    [r EXCEPT !.doc.slug = r.baseSlug,
              !.modified = IF r.baseSlug # r.doc.slug THEN @ \cup {"slug"} ELSE @]

\* this.slug = slug
AssignSlug(r, slug) ==
    [r EXCEPT !.doc.slug = slug,
              !.modified = IF slug # r.doc.slug THEN @ \cup {"slug"} ELSE @]

\* document.save() up to its first storage access: validation, then the
\* pre-save hook up to the first findOne (or to its end when the title is
\* neither new nor modified)
EnterSave(r) ==
    LET paths == IF r.isNew THEN SchemaPaths ELSE r.modified
        bad == Violations(r.doc, paths)
    IN  IF bad # {} THEN Done(r, "ValidationFailed", r.id, bad)
        ELSE IF HookRuns(r, "title")
             THEN [r EXCEPT !.pc = "lookup",
                            !.baseSlug = generateSlug(r.doc.title),
                            !.cand = generateSlug(r.doc.title),
                            !.counter = 1]
             ELSE AfterLoop(r)

\* Event.create(doc): a new document, the trim setters applied, saved
CreateEventDoc(p, doc) ==
    /\ Free(p)
    /\ ops < MaxOps
    /\ ops' = ops + 1
    /\ reqs' = [reqs EXCEPT ![p] =
                  EnterSave([Idle EXCEPT !.kind = "createEvent", !.isNew = TRUE,
                                         !.doc = [doc EXCEPT !.title = trim(@),
                                                             !.venue = trim(@),
                                                             !.slug = <<>>]])]
    /\ UNCHANGED <<events, bookings, retitled, pureVars, connVars, form>>

VOnline == <<"O","n","l","i","n","e">>

\* a document whose paths all pass the schema
SampleDoc == [NoDoc EXCEPT !.venue = VOnline, !.mode = "online",
                           !.agenda = <<"keynote">>, !.tags = <<"ai">>]

\* Event.create({...}) of a document complete but for the three given paths
CreateEvent(p, title, date, time) ==
    CreateEventDoc(p, [SampleDoc EXCEPT !.title = title, !.date = date, !.time = time])

\* update(id, fields): the stored document is loaded, the given paths are
\* assigned (a path is modified when its value changes) and it is saved
UpdateEvent(p, id, paths, title, date, time) ==
    /\ Free(p)
    /\ ops < MaxOps
    /\ id \in DOMAIN events
    /\ ops' = ops + 1
    /\ LET old == events[id]
           new == [old EXCEPT
                     !.title = IF "title" \in paths THEN trim(title) ELSE @,
                     !.date  = IF "date" \in paths THEN date ELSE @,
                     !.time  = IF "time" \in paths THEN time ELSE @]
       IN  reqs' = [reqs EXCEPT ![p] =
                      EnterSave([Idle EXCEPT !.kind = "updateEvent", !.id = id,
                                             !.doc = new,
                                             !.modified = {f \in paths : new[f] # old[f]}])]
    /\ UNCHANGED <<events, bookings, retitled, pureVars, connVars, form>>

\* a counter left as it is
CounterStuck(counter) == counter

\* counter++
Increment(counter) == counter + 1

\* one round of the hook's while loop: the findOne answers
SlugLookup(p) ==
    LET r == reqs[p]
    IN  /\ r.pc = "lookup"
        /\ reqs' = [reqs EXCEPT ![p] =
                      IF FindOneSlug(r.cand, r.id)
                      THEN [r EXCEPT !.cand = Candidate(r.baseSlug, r.counter),
                                     !.counter = Increment(r.counter),
                                     !.lookups = r.lookups + 1]
                      ELSE AfterLoop(AssignSlug([r EXCEPT !.lookups = r.lookups + 1],
                                                r.cand))]
        /\ UNCHANGED <<events, bookings, ops, retitled, pureVars, connVars, form>>

\* the write replacing the whole stored document by the one in memory
StoredWhole(r) == r.doc

\* the document as stored once the modified paths of r are written
Stored(r) ==
    IF r.isNew THEN r.doc
    ELSE [f \in DOMAIN r.doc |->
            IF f \in r.modified THEN r.doc[f] ELSE events[r.id][f]]

\* the hook's while loop run to its end against the collection as it is:
\* the slug it leaves in `slug`
RECURSIVE SlugLoop(_, _, _, _)
SlugLoop(baseSlug, slug, counter, id) ==
    IF FindOneSlug(slug, id)
    THEN SlugLoop(baseSlug, Candidate(baseSlug, counter), counter + 1, id)
    ELSE slug

\* the storage write that ends save(): insertOne for a new document,
\* updateOne of the modified paths for a stored one; the unique index on
\* slug refuses a duplicate.  The saves it overtakes are marked disturbed:
\* a write has landed between their start and their own write.
WriteEvent(p) ==
    LET r == reqs[p]
        id == IF r.isNew THEN Len(events) + 1 ELSE r.id
    IN  /\ r.pc = "write"
        /\ IF (r.isNew \/ "slug" \in r.modified) /\ SlugIndexRejects(r.doc.slug, r.id)
           THEN /\ reqs' = [reqs EXCEPT ![p] = Done(r, "DuplicateKey", r.id, {"slug"})]
                /\ UNCHANGED <<events, retitled>>
           ELSE /\ reqs' = [q \in Procs |->
                              IF q = p THEN Done(r, "ok", id, {})
                              ELSE IF reqs[q].pc \in {"lookup", "write"}
                              THEN [reqs[q] EXCEPT !.disturbed = TRUE]
                              ELSE reqs[q]]
                /\ events' = IF r.isNew THEN Append(events, r.doc)
                             ELSE [events EXCEPT ![r.id] = Stored(r)]
                /\ retitled' = IF ~r.isNew /\ "title" \in r.modified
                               THEN retitled \cup {r.id} ELSE retitled
        /\ UNCHANGED <<bookings, ops, pureVars, connVars, form>>

---------------------------------------------------------------------------
(* Inputs *)

TDevCon  == <<"D","e","v","C","o","n">>
TDevCon1 == <<"D","e","v","C","o","n"," ","1">>
TShort   == <<"H","i">>
Titles == {TDevCon, TDevCon1, TShort}

DIsoTime == <<"2","0","2","5","-","0","3","-","0","3","T","1","0",":","0","0",":","0","0","Z">>
DGarbage == <<"n","o","t"," ","a"," ","d","a","t","e">>
DIsoDay  == <<"2","0","2","5","-","0","4","-","0","1">>
Dates == {DIsoTime, DGarbage}
NewDates == {DIsoDay, DGarbage}

THalfPastTwoPM == <<"2",":","3","0"," ","P","M">>
TTwentyFive    == <<"2","5",":","0","0">>
TFivePastNine  == <<"9",":","0","5">>
Times == {THalfPastTwoPM, TTwentyFive}
NewTimes == {TFivePastNine, TTwentyFive}

EventPaths == {"title", "date", "time"}

---------------------------------------------------------------------------
(* Specification of the event lifecycle: requests interleave freely *)

\* const cached = global.mongoose ?? { conn: null, promise: null }
NoCache == [conn |-> 0, promise |-> 0]

Callers == {"c1", "c2", "c3"}

IdleCaller == [pc |-> "idle", on |-> 0, got |-> 0]

\* the props of BookEvent: the event being viewed
ViewedEvent == [eventId |-> <<"e","1">>, slug |-> <<"d","e","v","c","o","n">>]

\* useState(''), useState(false); nothing called, answered or captured yet
NewForm == [props |-> ViewedEvent, email |-> <<>>, submitted |-> FALSE,
            awaiting |-> <<>>, timers |-> 0, calls |-> <<>>, results |-> <<>>,
            captured |-> <<>>]

DataInit ==
    /\ events = <<>>
    /\ bookings = <<>>
    /\ reqs = [p \in Procs |-> Idle]
    /\ ops = 0
    /\ retitled = {}

PureIdle ==
    /\ arg = <<>>
    /\ ret = Returned(<<>>)
    /\ fn = "none"

ConnIdle ==
    /\ cached = NoCache
    /\ attempts = <<>>
    /\ callers = [c \in Callers |-> IdleCaller]
    /\ microtasks = <<>>

FormIdle == form = NewForm

Init ==
    /\ DataInit
    /\ PureIdle
    /\ env = TRUE
    /\ ConnIdle
    /\ FormIdle

\* the values an update gives: one per assigned path, none for the others
Given(paths, path, values) == IF path \in paths THEN values ELSE {<<>>}

StartCreateEvent ==
    \E p \in Procs, title \in Titles, date \in Dates, time \in Times :
        CreateEvent(p, title, date, time)

StartUpdateEvent ==
    \E p \in Procs, id \in DOMAIN events, paths \in SUBSET EventPaths :
        \E title \in Given(paths, "title", Titles),
           date \in Given(paths, "date", NewDates),
           time \in Given(paths, "time", NewTimes) :
            UpdateEvent(p, id, paths, title, date, time)

Next ==
    \/ StartCreateEvent
    \/ StartUpdateEvent
    \/ \E p \in Procs : SlugLookup(p)
    \/ \E p \in Procs : WriteEvent(p)

Spec == Init /\ [][Next]_vars

---------------------------------------------------------------------------
(* The same requests run one after another *)

AllFree == \A q \in Procs : Free(q)

SeqNext ==
    \/ AllFree /\ StartCreateEvent
    \/ AllFree /\ StartUpdateEvent
    \/ \E p \in Procs : SlugLookup(p)
    \/ \E p \in Procs : WriteEvent(p)

SeqSpec == Init /\ [][SeqNext]_vars

---------------------------------------------------------------------------
(* Properties of the event lifecycle *)

SDevCon  == <<"d","e","v","c","o","n">>
SDevCon1 == SDevCon \o <<"-","1">>
SDevCon2 == SDevCon \o <<"-","2">>

Slugs(except) == {events[i].slug : i \in DOMAIN events \ {except}}

\* C1: in every reachable state, whatever the interleaving of creates and
\* title-changing updates, no two persisted events have the same slug.
C1_SlugsUnique ==
    \A i, j \in DOMAIN events : i # j => events[i].slug # events[j].slug

\* an update changing a title and a create raced for one slug: the index
\* has refused the update's write and the two events keep distinct slugs
C1_Witness ==
    /\ Len(events) >= 2
    /\ \E p \in Procs :
          reqs[p].kind = "updateEvent" /\ reqs[p].result = "DuplicateKey"

\* C2: a create that loses the race for a slug is retried with the next
\* candidate: the index's refusal never reaches the caller of a create.
C2_ConflictNotSurfaced ==
    \A p \in Procs :
        reqs[p].kind = "createEvent" /\ reqs[p].pc = "done"
            => reqs[p].result # "DuplicateKey"

\* base-k
Numbered(base, k) == base \o <<"-">> \o Dec(k)

\* the least candidate base, base-1, base-2, ... that no event but `except`
\* holds
LeastFree(base, except) ==
    IF base \notin Slugs(except) THEN base
    ELSE LET k == CHOOSE n \in 1..(Len(events) + 1) :
                    /\ Numbered(base, n) \notin Slugs(except)
                    /\ \A m \in 1..(n - 1) : Numbered(base, m) \in Slugs(except)
         IN  Numbered(base, k)

\* C3: a create run with no other request in flight stores the event under
\* generateSlug(title) when that slug is unused, and otherwise under
\* generateSlug(title)-k for the least k >= 1 that is unused.
C3_SequentialSlug ==
    [][\A p \in Procs :
          (reqs[p].pc = "write" /\ reqs[p].isNew /\ reqs'[p].result = "ok")
          => /\ Len(events') = Len(events) + 1
             /\ SubSeq(events', 1, Len(events)) = events
             /\ events'[Len(events')].title = reqs[p].doc.title
             /\ events'[Len(events')].slug =
                   LeastFree(generateSlug(reqs[p].doc.title), 0)]_vars

\* "DevCon 1", "DevCon", "DevCon" created in turn: devcon-1 is skipped
C3_Witness ==
    /\ Len(events) = 3
    /\ events[1].title = TDevCon1 /\ events[1].slug = SDevCon1
    /\ events[2].title = TDevCon /\ events[2].slug = SDevCon
    /\ events[3].title = TDevCon /\ events[3].slug = SDevCon2

Rederive(id) ==
    SlugLoop(generateSlug(events[id].title), generateSlug(events[id].title), 1, id)

IsCanonicalDate(d) == IsIsoDate(d)
IsCanonicalTime(t) == Len(t) = 5 /\ HourLen(t) = 2

\* C8: a create or update that fails (validation, date or time format, or
\* the index) leaves the event collection as it was, and every record that
\* is stored has its date and time in normalized form.
C8_FailurePersistsNothing ==
    /\ [](\A i \in DOMAIN events :
             IsCanonicalDate(events[i].date) /\ IsCanonicalTime(events[i].time))
    /\ [][\A p \in Procs :
             (reqs[p].pc # "done" /\ reqs'[p].pc = "done" /\ reqs'[p].result # "ok")
             => events' = events]_vars

\* an update of a stored event has failed in normalization after its slug
\* was derived again
C8_Witness ==
    \E p \in Procs :
        /\ reqs[p].kind = "updateEvent"
        /\ reqs[p].result = "InvalidFormat"
        /\ reqs[p].id \in DOMAIN events

---------------------------------------------------------------------------
(* Booking model: schema validation, pre-save hook, unique compound index *)

\* EMAIL_REGEX = /^[^\s@]+@[^\s@]+\.[^\s@]+$/
EMAIL_REGEX(email) ==
    \E i, j \in DOMAIN email :
        /\ email[i] = "@" /\ email[j] = "."
        /\ 1 < i /\ i + 1 < j /\ j < Len(email)
        /\ \A k \in DOMAIN email \ {i} : email[k] \notin SpaceChars \cup {"@"}

\* the email path's setters, trim: true and lowercase: true
EmailSetterKeepCase(email) == trim(email)

EmailSetter(email) == toLowerCase(trim(email))

\* index({ eventId: 1, email: 1 }, { unique: true }): the index refuses
BookingIndexOff(eventId, email) == FALSE

BookingIndexRejects(eventId, email) ==
    \E i \in DOMAIN bookings :
        bookings[i].eventId = eventId /\ bookings[i].email = email

\* the hook taking every event for found
FindByIdAlways(eventId) == TRUE

\* Event.findById(this.eventId) finds a document
FindById(eventId) == eventId \in DOMAIN events

\* Booking.create({ eventId, email }): a new document, the email through its
\* setters, validated; then the pre-save hook up to its findById
CreateBooking(p, eventId, email) ==
    /\ Free(p)
    /\ ops < MaxOps
    /\ ops' = ops + 1
    /\ LET r == [Idle EXCEPT !.kind = "createBooking", !.isNew = TRUE,
                             !.eventId = eventId, !.email = EmailSetter(email)]
       IN  reqs' = [reqs EXCEPT ![p] =
                      IF r.email = <<>> \/ ~EMAIL_REGEX(r.email)
                      THEN [Done(r, "ValidationFailed", 0, {"email"})
                               EXCEPT !.eventId = r.eventId, !.email = r.email]
                      ELSE [r EXCEPT !.pc = "findEvent"]]
    /\ UNCHANGED <<events, bookings, retitled, pureVars, connVars, form>>

\* the pre-save hook once findById has answered
BookingHook(p) ==
    LET r == reqs[p]
    IN  /\ r.pc = "findEvent"
        /\ reqs' = [reqs EXCEPT ![p] =
                      IF ~FindById(r.eventId)
                      THEN [Done(r, "ReferentialIntegrityViolation", 0, {"eventId"})
                               EXCEPT !.eventId = r.eventId, !.email = r.email]
                      ELSE [r EXCEPT !.pc = "insertBooking"]]
        /\ UNCHANGED <<events, bookings, ops, retitled, pureVars, connVars, form>>

\* the insertOne that ends the save, refused by the unique index when the
\* pair is already booked
InsertBooking(p) ==
    LET r == reqs[p]
    IN  /\ r.pc = "insertBooking"
        /\ IF BookingIndexRejects(r.eventId, r.email)
           THEN /\ reqs' = [reqs EXCEPT ![p] =
                              [Done(r, "DuplicateBooking", 0, {"eventId", "email"})
                                  EXCEPT !.eventId = r.eventId, !.email = r.email]]
                /\ UNCHANGED bookings
           ELSE /\ reqs' = [reqs EXCEPT ![p] =
                              [Done(r, "ok", Len(bookings) + 1, {})
                                  EXCEPT !.eventId = r.eventId, !.email = r.email]]
                /\ bookings' = Append(bookings,
                                      [eventId |-> r.eventId, email |-> r.email])
        /\ UNCHANGED <<events, ops, retitled, pureVars, connVars, form>>

EMixedCase == <<"A","@","b",".","C">>
ELowerCase == <<" ","a","@","b",".","c">>
ENoDot     == <<"a","@","b">>
Emails == {EMixedCase, ELowerCase, ENoDot}

\* the eventIds a booking request may carry: _ids of events that come to
\* exist and _ids that never do
BookingEventIds == 1..MaxOps

StartCreateBooking ==
    \E p \in Procs, eventId \in BookingEventIds, email \in Emails :
        CreateBooking(p, eventId, email)

\* the events that bookings refer to are created by the same requests as in
\* Spec, from one valid input
StartCreateBookedEvent ==
    \E p \in Procs : CreateEvent(p, TDevCon, DIsoTime, THalfPastTwoPM)

BookingNext ==
    \/ StartCreateBookedEvent
    \/ \E p \in Procs : SlugLookup(p)
    \/ \E p \in Procs : WriteEvent(p)
    \/ StartCreateBooking
    \/ \E p \in Procs : BookingHook(p)
    \/ \E p \in Procs : InsertBooking(p)

BookingSpec == Init /\ [][BookingNext]_vars

SameBooking(a, b) ==
    a.eventId = b.eventId /\ toLowerCase(a.email) = toLowerCase(b.email)

BookingDone(p) == reqs[p].kind = "createBooking" /\ reqs[p].pc = "done"

\* C4: the booking collection never holds two records for one (eventId,
\* lower-cased email) pair; of two create-booking requests for one pair
\* never both succeed, and a request ends with success or DuplicateBooking
\* only with a record for its pair in the collection (so the refused one
\* lost to a request that succeeded).
C4_OneBookingPerPair ==
    /\ \A i, j \in DOMAIN bookings :
          i # j => ~SameBooking(bookings[i], bookings[j])
    /\ \A p, q \in Procs :
          (p # q /\ BookingDone(p) /\ BookingDone(q) /\ SameBooking(reqs[p], reqs[q]))
          => ~(reqs[p].result = "ok" /\ reqs[q].result = "ok")
    /\ \A p \in Procs :
          (BookingDone(p) /\ reqs[p].result \in {"ok", "DuplicateBooking"})
          => \E i \in DOMAIN bookings : SameBooking(bookings[i], reqs[p])

\* two requests for one pair have both returned: one booked, the other was
\* refused by the index, one record is stored
C4_Witness ==
    \E p, q \in Procs :
        /\ p # q /\ BookingDone(p) /\ BookingDone(q)
        /\ SameBooking(reqs[p], reqs[q])
        /\ reqs[p].result = "ok" /\ reqs[q].result = "DuplicateBooking"
        /\ Len(bookings) = 1

\* C5 as stated: a create-booking whose eventId matches no persisted event
\* fails with ReferentialIntegrityViolation.
C5_MissingEventIsIntegrityViolation ==
    \A p \in Procs :
        (BookingDone(p) /\ reqs[p].eventId \notin DOMAIN events)
        => reqs[p].result = "ReferentialIntegrityViolation"

\* C5 as amended: a create-booking whose eventId matches no persisted event
\* fails, with ValidationFailed when its email is invalid and with
\* ReferentialIntegrityViolation otherwise, and stores nothing: every
\* persisted booking's eventId is the _id of a persisted event.
C5_MissingEventFails ==
    /\ \A i \in DOMAIN bookings : bookings[i].eventId \in DOMAIN events
    /\ \A p \in Procs :
          (BookingDone(p) /\ reqs[p].eventId \notin DOMAIN events)
          => reqs[p].result = IF EMAIL_REGEX(reqs[p].email)
                              THEN "ReferentialIntegrityViolation"
                              ELSE "ValidationFailed"

\* a booking with a valid email for an event that does not exist has been
\* refused while another booking is stored
C5_Witness ==
    /\ Len(bookings) >= 1
    /\ \E p \in Procs :
          /\ BookingDone(p) /\ reqs[p].eventId \notin DOMAIN events
          /\ reqs[p].result = "ReferentialIntegrityViolation"

---------------------------------------------------------------------------
(* The pure functions applied to inputs drawn from bounded sets *)

\* every string over alphabet of length at most n
Strings(alphabet, n) == UNION {[1..k -> alphabet] : k \in 0..n}

\* bound on the length of the titles given to generateSlug
MaxTitleLen == 4

TitleAlphabet == {"A", "b", "1", " ", "-", "_", "!"}

PureInit(inputs) ==
    /\ DataInit
    /\ arg \in inputs
    /\ ret = Returned(<<>>)
    /\ fn = "none"
    /\ env = TRUE
    /\ ConnIdle
    /\ FormIdle

ApplyGenerateSlug ==
    /\ fn = "none"
    /\ fn' = "generateSlug"
    /\ ret' = Returned(generateSlug(arg))
    /\ UNCHANGED <<dataVars, arg, connVars, form>>

SlugSpec == PureInit(Strings(TitleAlphabet, MaxTitleLen)) /\ [][ApplyGenerateSlug]_vars

\* bound on the hour numbers written in the inputs of normalizeTime
MaxHour == 25

HourStrings ==
    {Dec(h) : h \in 0..MaxHour} \cup {padStart2(Dec(h)) : h \in 0..MaxHour}

TimeInputs ==
    {lead \o h \o sep \o m \o gap \o period :
        lead \in {<<>>, <<" ">>},
        h \in HourStrings,
        sep \in {<<":">>, <<".">>},
        m \in {<<"0","0">>, <<"7","5">>, <<"5">>},
        gap \in {<<>>, <<" ">>},
        period \in {<<>>, <<"A","M">>, <<"P","M">>, <<"p","m">>, <<"X","M">>}}

ApplyNormalizeTime ==
    /\ fn = "none"
    /\ fn' = "normalizeTime"
    /\ ret' = normalizeTime(arg)
    /\ UNCHANGED <<dataVars, arg, connVars, form>>

TimeSpec == PureInit(TimeInputs) /\ [][ApplyNormalizeTime]_vars

\* the inputs the contract of normalizeTime accepts: H:MM or HH:MM with hour
\* 0..23, or H:MM / HH:MM followed by AM or PM with hour 1..12
AcceptedTime(timeStr) ==
    LET t == toUpperCase(trim(timeStr))
    IN  \/ time24Match(t) /\ HourOf(t) \in 0..23
        \/ time12Match(t) /\ HourOf(t) \in 1..12

\* C9: normalizeTime fails for every input that is neither a 24-hour time
\* with hour 0..23 nor a 12-hour time with hour 1..12, and never returns a
\* string whose hour part exceeds 23.
C9_RejectsOutOfRange ==
    (fn = "normalizeTime" /\ ret.ok)
        => /\ AcceptedTime(arg)
           /\ parseInt(SubSeq(ret.val, 1, Len(ret.val) - 3)) <= 23

SlugChars == LowerChars \cup DigitChars \cup {"-"}

NoStrayHyphens(s) ==
    /\ s # <<>> => s[1] # "-" /\ s[Len(s)] # "-"
    /\ \A i \in 1..(Len(s) - 1) : ~(s[i] = "-" /\ s[i + 1] = "-")

\* C10 as stated: generateSlug(T) holds only characters of [a-z0-9-], does
\* not start or end with a hyphen and has no two adjacent hyphens.
C10_SlugShape ==
    fn = "generateSlug"
        => /\ \A i \in DOMAIN ret.val : ret.val[i] \in SlugChars
           /\ NoStrayHyphens(ret.val)

\* C10 as amended: generateSlug(T) holds only characters of [a-z0-9_-] (the
\* underscore is kept), does not start or end with a hyphen and has no two
\* adjacent hyphens.
C10_SlugShapeWithUnderscore ==
    fn = "generateSlug"
        => /\ \A i \in DOMAIN ret.val : ret.val[i] \in SlugChars \cup {"_"}
           /\ NoStrayHyphens(ret.val)

\* a title with an upper-case letter, an underscore and a hyphen next to a
\* space has been turned into a slug
C10_Witness ==
    /\ fn = "generateSlug"
    /\ {"A", "_"} \subseteq Range(arg)
    /\ \E i \in 1..(Len(arg) - 1) : arg[i] \in {" ", "-"} /\ arg[i + 1] \in {" ", "-"}
    /\ "_" \in Range(ret.val)

---------------------------------------------------------------------------
(* Similar events: getSimilarEventsBySlug *)

\* the query without its _id filter
MatchesSimilarAny(i, id, tags) ==
    Range(events[i].tags) \cap Range(tags) # {}

\* { _id: { $ne: event?._id }, tags: { $in: event?.tags } } matches document i
MatchesSimilar(i, id, tags) ==
    i # id /\ Range(events[i].tags) \cap Range(tags) # {}

\* Event.find(...) over the documents 1..n, in their natural order
RECURSIVE FindSimilar(_, _, _)
FindSimilar(n, id, tags) ==
    IF n = 0 THEN <<>>
    ELSE FindSimilar(n - 1, id, tags)
         \o (IF MatchesSimilar(n, id, tags) THEN <<n>> ELSE <<>>)

\* getSimilarEventsBySlug(slug) up to the answer of its findOne: a failed
\* dbConnect is caught and [] returned; event is null (id 0, no tags) when
\* no document has the slug
GetSimilarEventsBySlug(p, slug, up) ==
    /\ Free(p)
    /\ reqs' = [reqs EXCEPT ![p] =
                  IF ~up
                  THEN [Done([Idle EXCEPT !.kind = "listSimilar"], "ok", 0, {})
                          EXCEPT !.cand = slug]
                  ELSE LET hit == {i \in DOMAIN events : events[i].slug = slug}
                           id == IF hit = {} THEN 0 ELSE CHOOSE i \in hit : TRUE
                       IN  [Idle EXCEPT !.kind = "listSimilar", !.pc = "find",
                                        !.cand = slug, !.id = id,
                                        !.doc.tags = IF id = 0 THEN <<>>
                                                     ELSE events[id].tags]]
    /\ UNCHANGED <<events, bookings, ops, retitled, pureVars, connVars, form>>

\* the answer of its find: with event null the filter holds undefined for
\* $ne and $in, which matches no stored document (or throws into the catch)
ReturnSimilar(p) ==
    LET r == reqs[p]
    IN  /\ r.pc = "find"
        /\ reqs' = [reqs EXCEPT ![p] =
                      [Done(r, "ok", r.id, {}) EXCEPT
                          !.cand = r.cand,
                          !.found = FindSimilar(Len(events), r.id, r.doc.tags)]]
        /\ UNCHANGED <<events, bookings, ops, retitled, pureVars, connVars, form>>

TagLists == {<<"ai">>, <<"ai", "web">>, <<"cloud">>}

SNone == <<"n","o","n","e">>

SimilarSlugs == {SDevCon, SDevCon1, SNone}

StartCreateTaggedEvent ==
    \E p \in Procs, tags \in TagLists :
        CreateEventDoc(p, [SampleDoc EXCEPT !.title = TDevCon, !.date = DIsoTime,
                                            !.time = THalfPastTwoPM, !.tags = tags])

StartGetSimilar ==
    \E p \in Procs, slug \in SimilarSlugs, up \in BOOLEAN :
        GetSimilarEventsBySlug(p, slug, up)

SimilarNext ==
    \/ StartCreateTaggedEvent
    \/ StartGetSimilar
    \/ \E p \in Procs : SlugLookup(p)
    \/ \E p \in Procs : WriteEvent(p)
    \/ \E p \in Procs : ReturnSimilar(p)

SimilarSpec == Init /\ [][SimilarNext]_vars

\* the persisted events other than e that share a tag with e
SharingTag(e) ==
    {i \in DOMAIN events : i # e /\ \E t \in Range(events[e].tags) :
                                        \E j \in DOMAIN events[i].tags :
                                            events[i].tags[j] = t}

\* C11: listSimilar for an event E returns exactly the persisted events other
\* than E whose tag set intersects E's, each once and never E itself, and
\* returns the empty list when E cannot be resolved: E is the event that has
\* the given slug when the request looks it up, and the list is the one of
\* the events persisted when the request reads them.
C11_SimilarExactly ==
    [][\A p \in Procs :
          /\ (reqs'[p].kind = "listSimilar" /\ reqs'[p].pc = "find"
                 /\ reqs[p] # reqs'[p])
             => LET e == {i \in DOMAIN events : events[i].slug = reqs'[p].cand}
                IN  IF e = {} THEN reqs'[p].id = 0 ELSE reqs'[p].id \in e
          /\ (reqs'[p].kind = "listSimilar" /\ reqs'[p].pc = "done"
                 /\ reqs[p] # reqs'[p])
             => LET e == reqs[p].id
                    found == reqs'[p].found
                IN  IF reqs[p].pc # "find" \/ e = 0 THEN found = <<>>
                    ELSE /\ Range(found) = SharingTag(e)
                         /\ Len(found) = Cardinality(SharingTag(e))]_vars

\* a list was returned for an event that shares a tag with one other event
\* and none with a third
C11_Witness ==
    \E p \in Procs :
        /\ reqs[p].kind = "listSimilar" /\ reqs[p].pc = "done"
        /\ reqs[p].id \in DOMAIN events
        /\ Len(reqs[p].found) = 1
        /\ Len(events) = 3

---------------------------------------------------------------------------
(* Connection cache: dbConnect *)

\* bound on the number of mongoose.connect() calls in one behaviour
MaxAttempts == 3

Outcomes == {"resolved", "rejected"}

\* every call starting a connection attempt of its own
StartsAttemptAlways(c) == TRUE

\* if (!cached.promise)
StartsAttempt(c) == c.promise = 0

\* a catch that leaves the rejected promise in the cache
KeepOnError(c) == c

\* catch (error) { cached.promise = null; throw error }
ClearOnError(c) == [c EXCEPT !.promise = 0]

\* dbConnect() from its entry to its await (or to its return when nothing
\* is awaited).  A call is made by a request handler, in a task of its own:
\* the continuations queued by a settled promise have all run before it.
\* The attempt k stands for the promise mongoose.connect() returned and for
\* the connection it resolves to.
DbConnect(c) ==
    /\ microtasks = <<>>
    /\ callers[c].pc # "awaiting"
    /\ IF ~env
       THEN /\ callers' = [callers EXCEPT ![c] = [IdleCaller EXCEPT !.pc = "threw"]]
            /\ UNCHANGED <<cached, attempts, microtasks>>
       ELSE IF cached.conn # 0
       THEN /\ callers' = [callers EXCEPT ![c] =
                             [IdleCaller EXCEPT !.pc = "returned", !.got = cached.conn]]
            /\ UNCHANGED <<cached, attempts, microtasks>>
       ELSE LET start == StartsAttempt(cached)
                k == IF start THEN Len(attempts) + 1 ELSE cached.promise
            IN  /\ start => Len(attempts) < MaxAttempts
                /\ cached' = [cached EXCEPT !.promise = k]
                /\ attempts' = IF start
                               THEN Append(attempts, [state |-> "pending", waiters |-> <<c>>])
                               ELSE [attempts EXCEPT ![k].waiters = Append(@, c)]
                /\ callers' = [callers EXCEPT ![c] =
                                 [IdleCaller EXCEPT !.pc = "awaiting", !.on = k]]
                /\ microtasks' = IF ~start /\ attempts[k].state # "pending"
                                 THEN <<c>> ELSE <<>>
    /\ UNCHANGED <<dataVars, pureVars, env, form>>

\* the driver settles the promise of attempt k: the continuations of the
\* callers awaiting it are queued in the order of their awaits
Settle(k, outcome) ==
    /\ microtasks = <<>>
    /\ k \in DOMAIN attempts
    /\ attempts[k].state = "pending"
    /\ attempts' = [attempts EXCEPT ![k].state = outcome]
    /\ microtasks' = attempts[k].waiters
    /\ UNCHANGED <<dataVars, pureVars, env, cached, callers, form>>

\* the first queued continuation runs: cached.conn = <the awaited value> and
\* return cached.conn, or the catch
Resume ==
    /\ microtasks # <<>>
    /\ LET c == Head(microtasks)
           k == callers[c].on
       IN  IF attempts[k].state = "resolved"
           THEN /\ cached' = [cached EXCEPT !.conn = k]
                /\ callers' = [callers EXCEPT ![c].pc = "returned", ![c].got = k]
           ELSE /\ cached' = ClearOnError(cached)
                /\ callers' = [callers EXCEPT ![c].pc = "threw"]
    /\ microtasks' = Tail(microtasks)
    /\ UNCHANGED <<dataVars, pureVars, env, attempts, form>>

ConnInit ==
    /\ DataInit
    /\ PureIdle
    /\ env \in BOOLEAN
    /\ ConnIdle
    /\ FormIdle

ConnNext ==
    \/ \E c \in Callers : DbConnect(c)
    \/ \E k \in 1..MaxAttempts, outcome \in Outcomes : Settle(k, outcome)
    \/ Resume

ConnSpec == ConnInit /\ [][ConnNext]_vars

\* the attempts that have not failed
Live == {k \in DOMAIN attempts : attempts[k].state # "rejected"}

\* C12: for concurrent dbConnect callers that start while no connection is
\* cached, the connect is started at most once as long as that attempt has
\* not failed; every caller that returns gets the same connection handle,
\* and the handle, once cached, is never replaced.
C12_SingleConnection ==
    /\ [](Cardinality(Live) <= 1)
    /\ [](\A c, d \in Callers :
            (callers[c].pc = "returned" /\ callers[d].pc = "returned")
                => callers[c].got = callers[d].got)
    /\ [][cached.conn # 0 => cached'.conn = cached.conn]_vars

\* two callers that awaited the same attempt have both returned, and a third
\* has returned the cached connection
C12_Witness ==
    /\ Len(attempts) = 1
    /\ Len(attempts[1].waiters) = 2
    /\ \A c \in Callers : callers[c].pc = "returned" /\ callers[c].got = 1

\* the call of c has just failed because the attempt it awaited was rejected
FailsOnRejection(c) ==
    callers[c].pc = "awaiting" /\ callers'[c].pc = "threw"

\* C15: after a dbConnect call fails because the connection attempt was
\* rejected, the cached connection is still absent and the cached promise
\* is cleared, so that the next dbConnect call starts a fresh attempt; and
\* the failure reported to one waiter never clears a promise that belongs to
\* a newer attempt started by another caller.
C15_FailureAllowsRetry ==
    /\ [][\A c \in Callers :
             FailsOnRejection(c) => cached'.conn = 0 /\ cached'.promise = 0]_vars
    /\ []((microtasks = <<>> /\ cached.promise # 0)
             => attempts[cached.promise].state # "rejected")
    /\ [][\A c \in Callers :
             (callers[c].pc # "awaiting" /\ callers'[c].pc = "awaiting"
                 /\ \A k \in DOMAIN attempts : attempts[k].state = "rejected")
             => /\ Len(attempts') = Len(attempts) + 1
                /\ attempts'[Len(attempts')].state = "pending"
                /\ cached'.promise = Len(attempts')
                /\ callers'[c].on = Len(attempts')]_vars
    /\ [][\A c \in Callers :
             FailsOnRejection(c) => cached.promise \in {0, callers[c].on}]_vars

\* two callers awaited the first attempt and both failed with it; a later
\* call has started a second attempt, which is in flight
C15_Witness ==
    /\ Len(attempts) = 2
    /\ attempts[1].state = "rejected" /\ Len(attempts[1].waiters) = 2
    /\ attempts[2].state = "pending" /\ cached.promise = 2
    /\ \E c \in Callers : callers[c].pc = "threw" /\ callers[c].on = 1

---------------------------------------------------------------------------
(* Route handlers: POST and GET /api/events, GET /api/events/[slug] *)

\* POST up to its first storage access: dbConnect() throwing lands in the
\* handler's catch, a request without image file is refused, and the rest
\* is Event.create
HandlePost(p, up, hasFile, title, date, time) ==
    IF up /\ hasFile THEN CreateEvent(p, title, date, time)
    ELSE /\ Free(p)
         /\ reqs' = [reqs EXCEPT ![p] =
                       Done([Idle EXCEPT !.kind = "createEvent"],
                            (IF ~up THEN "StorageUnavailable" ELSE "InvalidRequest"),
                            0, {})]
         /\ UNCHANGED <<events, bookings, ops, retitled, pureVars, connVars, form>>

\* a query of the save in flight fails: the error lands in POST's catch
QueryFails(p) ==
    /\ reqs[p].kind = "createEvent"
    /\ reqs[p].pc \in {"lookup", "write"}
    /\ reqs' = [reqs EXCEPT ![p] = Done(reqs[p], "StorageUnavailable", 0, {})]
    /\ UNCHANGED <<events, bookings, ops, retitled, pureVars, connVars, form>>

\* Event.find().sort({ createdAt: -1 }): the _ids, newest first
RECURSIVE NewestFirst(_)
NewestFirst(n) == IF n = 0 THEN <<>> ELSE <<n>> \o NewestFirst(n - 1)

\* GET /api/events
ListEvents(p, up) ==
    /\ Free(p)
    /\ reqs' = [reqs EXCEPT ![p] =
                  IF up
                  THEN [Done([Idle EXCEPT !.kind = "listEvents"], "ok", 0, {})
                          EXCEPT !.found = NewestFirst(Len(events))]
                  ELSE Done([Idle EXCEPT !.kind = "listEvents"],
                            "StorageUnavailable", 0, {})]
    /\ UNCHANGED <<events, bookings, ops, retitled, pureVars, connVars, form>>

\* GET /api/events/[slug]
GetEventBySlug(p, slug, up) ==
    LET sanitizedSlug == toLowerCase(trim(slug))
        hit == {i \in DOMAIN events : events[i].slug = sanitizedSlug}
        r == [Idle EXCEPT !.kind = "getEvent", !.cand = slug]
    IN  /\ Free(p)
        /\ reqs' = [reqs EXCEPT ![p] =
                      [(IF slug = <<>> \/ Len(sanitizedSlug) = 0
                           THEN Done(r, "InvalidRequest", 0, {})
                        ELSE IF ~up THEN Done(r, "StorageUnavailable", 0, {})
                        ELSE IF hit = {} THEN Done(r, "NotFound", 0, {})
                        ELSE Done(r, "ok", CHOOSE i \in hit : TRUE, {}))
                       EXCEPT !.cand = slug]]
        /\ UNCHANGED <<events, bookings, ops, retitled, pureVars, connVars, form>>

SPadded == <<" ","D","e","v","C","o","n"," ">>

SBlank == <<" ">>

RouteSlugs == {SDevCon, SPadded, SBlank, SNone}

StartPost ==
    \E p \in Procs, up \in BOOLEAN, hasFile \in BOOLEAN,
       title \in {TDevCon, TShort}, date \in Dates :
        HandlePost(p, up, hasFile, title, date, THalfPastTwoPM)

StartList == \E p \in Procs, up \in BOOLEAN : ListEvents(p, up)

StartGet ==
    \E p \in Procs, slug \in RouteSlugs, up \in BOOLEAN : GetEventBySlug(p, slug, up)

HandlerNext ==
    \/ StartPost
    \/ StartList
    \/ StartGet
    \/ \E p \in Procs : SlugLookup(p)
    \/ \E p \in Procs : WriteEvent(p)
    \/ \E p \in Procs : QueryFails(p)

HandlerSpec == Init /\ [][HandlerNext]_vars

\* C13: in the create-event, list-events and get-event-by-slug handlers a
\* validation failure yields a client error (4xx), a lookup that finds
\* nothing yields 404, and a storage-unavailable failure (dbConnect or a
\* query failing) yields a server error (5xx).
C13_StatusClasses ==
    \A p \in Procs :
        (reqs[p].pc = "done"
            /\ reqs[p].kind \in {"createEvent", "listEvents", "getEvent"})
        => /\ reqs[p].result \in {"ValidationFailed", "InvalidFormat"}
                => reqs[p].status \in 400..499
           /\ reqs[p].result = "NotFound" => reqs[p].status = 404
           /\ reqs[p].result = "StorageUnavailable" => reqs[p].status \in 500..599

---------------------------------------------------------------------------
(* Validation of a create-event: the schema's validators and the hook *)

\* the documents given to Event.create: each path valid or violating
GivenDocs ==
    {[NoDoc EXCEPT !.title = title, !.venue = venue, !.date = date, !.time = time,
                   !.mode = mode, !.agenda = agenda, !.tags = tags] :
        title \in {TDevCon, TShort}, venue \in {VOnline, <<>>},
        date \in Dates, time \in Times, mode \in {"online", "virtual"},
        agenda \in {<<"keynote">>, <<>>}, tags \in {<<"ai">>, <<>>}}

ValidateInit ==
    /\ DataInit
    /\ arg \in GivenDocs
    /\ ret = Returned(<<>>)
    /\ fn = "none"
    /\ env = TRUE
    /\ ConnIdle
    /\ FormIdle

\* Event.create(arg)
CreateGiven == \E p \in Procs : CreateEventDoc(p, arg)

ValidateNext ==
    \/ CreateGiven
    \/ \E p \in Procs : SlugLookup(p)
    \/ \E p \in Procs : WriteEvent(p)

ValidateSpec == ValidateInit /\ [][ValidateNext]_vars

\* the fields of a given document that violate a rule of the entity
Violated(doc) ==
    {f \in {"title", "venue", "date", "time"} : trim(doc[f]) = <<>>}
    \cup {f \in {"title"} : Len(trim(doc.title)) < 3}
    \cup {f \in {"mode"} : doc.mode \notin {"online", "offline", "hybrid"}}
    \cup {f \in {"agenda", "tags"} : doc[f] = <<>>}
    \cup {f \in {"date"} : ~normalizeDate(doc.date).ok}
    \cup {f \in {"time"} : ~normalizeTime(doc.time).ok}

\* C14: a create-event with several violations at once (missing required
\* field, title shorter than 3, unrecognized mode, empty agenda or tags,
\* unparsable date or time) fails with a single error that enumerates every
\* violated field, date and time format failures included.
C14_EveryViolationReported ==
    \A p \in Procs :
        (reqs[p].kind = "createEvent" /\ reqs[p].pc = "done"
            /\ Cardinality(Violated(arg)) >= 2)
        => /\ reqs[p].result = "ValidationFailed"
           /\ reqs[p].fields = Violated(arg)

---------------------------------------------------------------------------
(* Titles made only of special characters *)

\* characters outside [\w\s-]
SpecialChars == {"!", "@"}

AllSpecial(title) == title # <<>> /\ Range(title) \subseteq SpecialChars

\* the titles of special characters that pass the schema's minlength
SpecialTitles ==
    {t \in Strings(SpecialChars, MinTitleLen) : Len(t) = MinTitleLen}

StartCreateSpecial ==
    \E p \in Procs, title \in SpecialTitles :
        CreateEvent(p, title, DIsoTime, THalfPastTwoPM)

SpecialNext ==
    \/ StartCreateSpecial
    \/ \E p \in Procs : SlugLookup(p)
    \/ \E p \in Procs : WriteEvent(p)

SpecialSpec == Init /\ [][SpecialNext]_vars

\* C16 as stated: every title made only of special characters has the empty
\* string as base slug, and once one event with the empty slug is persisted,
\* every later create of an event with such a title fails on the slug
\* uniqueness constraint (so no second such event is ever persisted).
C16_LaterCreatesFail ==
    /\ \A i \in DOMAIN events :
          AllSpecial(events[i].title) => generateSlug(events[i].title) = <<>>
    /\ (\E i \in DOMAIN events : events[i].slug = <<>>)
          => Cardinality({j \in DOMAIN events : AllSpecial(events[j].title)}) <= 1

\* C16 as amended: every title made only of special characters has the
\* empty string as base slug; the first such event is persisted with the
\* empty slug, and a later create of such a title finds it taken and is
\* persisted under the next candidate "-1", then "-2", and so on; such a
\* create fails only with DuplicateKey and only when another write has
\* landed during its save.
C16_EmptyBaseThenNumbered ==
    /\ [](\A p \in Procs :
            (reqs[p].kind = "createEvent" /\ reqs[p].pc \in {"lookup", "write"})
                => reqs[p].baseSlug = <<>>)
    /\ [](\A i \in DOMAIN events :
            /\ AllSpecial(events[i].title)
            /\ events[i].slug = IF i = 1 THEN <<>> ELSE <<"-">> \o Dec(i - 1))
    /\ [][\A p \in Procs :
            (reqs[p].pc \in {"lookup", "write"} /\ reqs'[p].pc = "done"
                /\ reqs'[p].result # "ok")
            => reqs'[p].result = "DuplicateKey" /\ reqs[p].disturbed]_vars

\* three events titled in special characters are persisted, the third one
\* under the slug "-2"
C16_Witness ==
    /\ Len(events) = 3
    /\ \A i \in DOMAIN events : AllSpecial(events[i].title)
    /\ events[1].slug = <<>>
    /\ events[3].slug = <<"-", "2">>

---------------------------------------------------------------------------
(* Termination of the slug loop: saves interleave and every query that is
   awaited is eventually answered *)

StartCreateNamed ==
    \E p \in Procs, title \in {TDevCon, TDevCon1} :
        CreateEvent(p, title, DIsoTime, THalfPastTwoPM)

StartRetitle ==
    \E p \in Procs, id \in DOMAIN events, title \in {TDevCon, TDevCon1} :
        UpdateEvent(p, id, {"title"}, title, <<>>, <<>>)

LoopNext ==
    \/ StartCreateNamed
    \/ StartRetitle
    \/ \E p \in Procs : SlugLookup(p)
    \/ \E p \in Procs : WriteEvent(p)

\* the findOne of p has been answered: the step is a round of its loop
Answered(p) == reqs'[p].lookups = reqs[p].lookups + 1

\* the awaited findOne and the awaited write of a save are answered: weak
\* fairness of SlugLookup(p) and of WriteEvent(p).  That of SlugLookup(p) is
\* written out: the action is enabled exactly when p is at its lookup, and a
\* step is one of its steps exactly when it counts a lookup of p.
LoopFairness ==
    \A p \in Procs :
        /\ <>[](reqs[p].pc = "lookup") => []<><<Answered(p)>>_vars
        /\ WF_vars(WriteEvent(p))

LoopSpec == Init /\ [][LoopNext]_vars /\ LoopFairness

\* C17: the slug uniqueness loop of a save always terminates: with n
\* persisted events and no write landing during the save it has chosen a
\* slug after at most n+1 lookups, and under fair scheduling with finitely
\* many concurrent saves every loop eventually ends.
C17_LoopTerminates ==
    /\ [](\A p \in Procs :
            (reqs[p].pc \in {"lookup", "write"} /\ ~reqs[p].disturbed)
                => reqs[p].lookups <= Len(events) + 1)
    /\ \A p \in Procs : (reqs[p].pc = "lookup") ~> (reqs[p].pc # "lookup")

\* with two events persisted and no write in between, a save has chosen its
\* slug at its third lookup
C17_Witness ==
    \E p \in Procs :
        /\ reqs[p].pc = "write"
        /\ ~reqs[p].disturbed
        /\ Len(events) = 2
        /\ reqs[p].lookups = 3

---------------------------------------------------------------------------
(* The booking form: BookEvent and its submit handler *)

\* bound on the number of submissions of the form in one behaviour
MaxSubmits == 2

\* onChange of the input, shown while the form is
SetEmail(email) ==
    /\ ~form.submitted
    /\ form' = [form EXCEPT !.email = email]
    /\ UNCHANGED <<dataVars, pureVars, connVars>>

\* handsleSubmit up to its await: createBooking is called
Submit ==
    /\ ~form.submitted
    /\ Len(form.calls) < MaxSubmits
    /\ LET call == [eventId |-> <<>>, slug |-> <<>>, email |-> form.email]
       IN  form' = [form EXCEPT !.calls = Append(@, call),
                                !.awaiting = Append(@, call)]
    /\ UNCHANGED <<dataVars, pureVars, connVars>>

\* handsleSubmit after its await: createBooking has answered { success }
\* for the call awaited longest; the branch taken, then setTimeout
BookingAnswers(success) ==
    /\ form.awaiting # <<>>
    /\ LET call == Head(form.awaiting)
       IN  form' = [form EXCEPT
                      !.awaiting = Tail(@),
                      !.results = Append(@, success),
                      !.submitted = IF success THEN TRUE ELSE @,
                      !.captured = Append(@,
                          IF success
                          THEN [name |-> "event_booked",
                                eventId |-> form.props.eventId,
                                slug |-> form.props.slug, email |-> call.email]
                          ELSE [name |-> "booking creation_failed",
                                eventId |-> <<>>, slug |-> <<>>, email |-> <<>>]),
                      !.timers = @ + 1]
    /\ UNCHANGED <<dataVars, pureVars, connVars>>

\* the callback of setTimeout(..., 1000)
TimerFires ==
    /\ form.timers > 0
    /\ form' = [form EXCEPT !.timers = @ - 1, !.submitted = TRUE]
    /\ UNCHANGED <<dataVars, pureVars, connVars>>

FormNext ==
    \/ \E email \in Emails : SetEmail(email)
    \/ Submit
    \/ \E success \in BOOLEAN : BookingAnswers(success)
    \/ TimerFires

FormSpec == Init /\ [][FormNext]_vars

\* how many of the notifications captured have the given name
Captured(name) ==
    Cardinality({i \in DOMAIN form.captured : form.captured[i].name = name})

\* how many createBooking calls have answered the given success
Answers(success) ==
    Cardinality({i \in DOMAIN form.results : form.results[i] = success})

\* C18: submitted = true is reached only after a createBooking call that
\* returned success, event_booked is sent exactly when createBooking
\* succeeded and the failure notification exactly when it did not, and
\* createBooking is called with the eventId and slug of the event viewed.
C18_FormFollowsCreateBooking ==
    /\ form.submitted => Answers(TRUE) > 0
    /\ Captured("event_booked") = Answers(TRUE)
    /\ Captured("booking creation_failed") = Answers(FALSE)
    /\ \A i \in DOMAIN form.calls :
          /\ form.calls[i].eventId = form.props.eventId
          /\ form.calls[i].slug = form.props.slug

====
